---- MODULE Spec2Model ----
(***************************************************************************)
(* exploration/data2lemma2vec.ipynb run top to bottom: load the tweets,    *)
(* lemmatize them with three spaCy models, export the lemmas under a UTC   *)
(* time stamp, reload them, vectorize them, export three vector tables.    *)
(*                                                                         *)
(* Representation.  A Python str is a sequence of one-character strings.   *)
(* A tweet is kept as the sequence of the words the tokenizer splits it    *)
(* into.  A table cell is a record [kind, val] with kind one of "str",     *)
(* "list", "bool", "nan", "ndarray", so that a list of lemmas and the text *)
(* of that list are different values.  A DataFrame is the sequence of its  *)
(* columns, each [name, values].  A CSV file is its header and its rows of *)
(* field texts.  doc.vector is opaque: it is modelled as the model variant *)
(* followed by the text the pipeline was given.                            *)
(***************************************************************************)
EXTENDS Integers, Sequences, FiniteSets, TLC

VARIABLES
    pc,                 \* the cell (or the position inside it) to run next
    error,              \* "none" or the exception that ended the run
    run,                \* ordinal of the current top-to-bottom run
    clock,              \* wall clock, in ticks of 1/TicksPerSecond s
    input_csv,          \* data/combined_deduped.csv
    training_data,      \* DataFrame
    lemmas,             \* DataFrame
    vectors,            \* DataFrame
    pos,                \* documents nlp.pipe has yielded so far
    acc,                \* the local list make_lemmas / make_vectors builds
    utc_now_formatted,  \* the run's time stamp, NoStamp until it is made
    stamp_clock,        \* every utcnow() reading taken so far: [run, at]
    files               \* the data directory: sequence of files

vars == <<pc, error, run, clock, input_csv, training_data, lemmas, vectors,
          pos, acc, utc_now_formatted, stamp_clock, files>>

----------------------------------------------------------------------------
(* Bounds *)

MaxDocs == 3

MaxTokens == 3

MaxClock == 3

MaxRuns == 2

TicksPerSecond == 2

\* nlp.pipe(docs, batch_size=500), scaled to the bounded tables
batch_size == 2

\* utc_now_formatted before the export cell has run
NoStamp == -1

----------------------------------------------------------------------------
(* Python strings and table cells *)

Variants == <<"sm", "md", "lg">>

Whitespace == {" ", "\t", "\n", "\r"}

StrCell(s) == [kind |-> "str", val |-> s]

ListCell(l) == [kind |-> "list", val |-> l]

BoolCell(b) == [kind |-> "bool", val |-> b]

NaNCell == [kind |-> "nan", val |-> <<>>]

NdarrayCell(v) == [kind |-> "ndarray", val |-> v]

TrueText == <<"T", "r", "u", "e">>

FalseText == <<"F", "a", "l", "s", "e">>

\* Python ==: values of different types are never equal
CellEq(a, b) == a.kind = b.kind /\ a.val = b.val

Contains(s, c) == \E i \in 1..Len(s) : s[i] = c

\* repr(str): single quotes, double quotes when the text holds a single
\* quote and no double quote (escapes are not modelled)
PyReprStr(s) ==
    IF Contains(s, "'") /\ ~Contains(s, "\"")
    THEN <<"\"">> \o s \o <<"\"">>
    ELSE <<"'">> \o s \o <<"'">>

RECURSIVE PyJoinRepr(_, _)
PyJoinRepr(l, i) ==
    IF i > Len(l) THEN <<>>
    ELSE (IF i > 1 THEN <<",", " ">> ELSE <<>>)
         \o PyReprStr(l[i]) \o PyJoinRepr(l, i + 1)

RECURSIVE PyJoinSpace(_, _)
PyJoinSpace(l, i) ==
    IF i > Len(l) THEN <<>>
    ELSE (IF i > 1 THEN <<" ">> ELSE <<>>) \o l[i] \o PyJoinSpace(l, i + 1)

\* PyStrList that joins the lemmas with spaces: '' for the empty list
PyStrListJoined(l) == PyJoinSpace(l, 1)

\* str(list of str)
PyStrList(l) == <<"[">> \o PyJoinRepr(l, 1) \o <<"]">>

\* the text to_csv writes for a cell: str(value), '' for NaN
PyStr(cell) ==
    CASE cell.kind = "str" -> cell.val
      [] cell.kind = "list" -> PyStrList(cell.val)
      [] cell.kind = "bool" -> (IF cell.val THEN TrueText ELSE FalseText)
      [] cell.kind = "nan" -> <<>>
      [] cell.kind = "ndarray" -> <<"[">> \o cell.val \o <<"]">>

----------------------------------------------------------------------------
(* CSV fields: csv.QUOTE_MINIMAL on write, unquoting and type inference on *)
(* read                                                                    *)

CsvSpecial == {",", "\"", "\n", "\r"}

RECURSIVE CsvDouble(_, _)
CsvDouble(s, i) ==
    IF i > Len(s) THEN <<>>
    ELSE (IF s[i] = "\"" THEN <<"\"", "\"">> ELSE <<s[i]>>)
         \o CsvDouble(s, i + 1)

CsvQuote(s) ==
    IF \E i \in 1..Len(s) : s[i] \in CsvSpecial
    THEN <<"\"">> \o CsvDouble(s, 1) \o <<"\"">>
    ELSE s

RECURSIVE CsvUndouble(_, _)
CsvUndouble(s, i) ==
    IF i > Len(s) THEN <<>>
    ELSE IF s[i] = "\"" /\ i < Len(s) /\ s[i + 1] = "\""
         THEN <<"\"">> \o CsvUndouble(s, i + 2)
         ELSE <<s[i]>> \o CsvUndouble(s, i + 1)

CsvUnquote(s) ==
    IF Len(s) >= 2 /\ s[1] = "\"" /\ s[Len(s)] = "\""
    THEN CsvUndouble(SubSeq(s, 2, Len(s) - 1), 1)
    ELSE s

\* pandas' parse of one field: empty is NaN, True/False is bool, else str
ParseField(s) ==
    IF s = <<>> THEN NaNCell
    ELSE IF s = TrueText THEN BoolCell(TRUE)
    ELSE IF s = FalseText THEN BoolCell(FALSE)
    ELSE StrCell(s)

----------------------------------------------------------------------------
(* The spaCy pipelines.  Tokenization, tagging, lemmatization and the      *)
(* document vector belong to spaCy; the words below stand for the tokens   *)
(* it yields, one for every attribute the filter reads.                    *)

Words == {"love", "the", "!!!", "thee", "   ", "go", "Ears"}

Tok(text, lemma, stop, punct, pos_tag) ==
    [text |-> text, lemma_ |-> lemma, is_stop |-> stop, is_punct |-> punct,
     pos_ |-> pos_tag]

\* nlp_sm, nlp_md and nlp_lg may lemmatize the same word differently
Token(v, w) ==
    CASE w = "love" -> Tok(<<"l", "o", "v", "e">>, <<"l", "o", "v", "e">>,
                           FALSE, FALSE, "VERB")
      [] w = "the" -> Tok(<<"t", "h", "e">>, <<"t", "h", "e">>,
                          TRUE, FALSE, "DET")
      [] w = "!!!" -> Tok(<<"!", "!", "!">>, <<"!", "!", "!">>,
                          FALSE, TRUE, "PUNCT")
      [] w = "thee" -> Tok(<<"t", "h", "e", "e">>, <<"t", "h", "e", "e">>,
                           FALSE, FALSE, "PRON")
      [] w = "   " -> Tok(<<" ", " ", " ">>, <<" ", " ", " ">>,
                          FALSE, FALSE, "SPACE")
      [] w = "go" -> Tok(<<"g", "o">>, <<"g", "o">>, FALSE, FALSE, "VERB")
      [] w = "Ears" -> Tok(<<"E", "a", "r", "s">>,
                           IF v = "md" THEN <<"e", "a", "r">>
                                       ELSE <<"E", "a", "r">>,
                           FALSE, FALSE, "NOUN")

\* the tokens of nlp(text), in the order they occur in the text
DocTokens(v, text) == [i \in 1..Len(text) |-> Token(v, text[i])]

\* doc.vector of nlp(text)
DocVector(v, text) == <<v>> \o text

----------------------------------------------------------------------------
(* make_lemmas *)

STOP_WORDS == <<>>

\* is_empty_pattern.match(text), the pattern being ^\s*$
is_empty_pattern(text) == \A i \in 1..Len(text) : text[i] \in Whitespace

\* KeepToken with the length test off by one
KeepTokenLen2(token) ==
    /\ ~token.is_stop
    /\ ~token.is_punct
    /\ token.pos_ # "PRON"
    /\ ~is_empty_pattern(token.text)
    /\ Len(token.lemma_) >= 2
    /\ ~(\E j \in 1..Len(STOP_WORDS) : STOP_WORDS[j] = token.lemma_)

\* the condition of the if statement inside make_lemmas
KeepToken(token) ==
    /\ ~token.is_stop
    /\ ~token.is_punct
    /\ token.pos_ # "PRON"
    /\ ~is_empty_pattern(token.text)
    /\ Len(token.lemma_) > 2
    /\ ~(\E j \in 1..Len(STOP_WORDS) : STOP_WORDS[j] = token.lemma_)

\* TokenLoop that skips a lemma the list already holds
RECURSIVE TokenLoopDedup(_, _, _)
TokenLoopDedup(doc, i, doc_lemmas) ==
    IF i > Len(doc) THEN doc_lemmas
    ELSE TokenLoopDedup(doc, i + 1,
                        IF /\ KeepToken(doc[i])
                           /\ \A j \in 1..Len(doc_lemmas) :
                                 doc_lemmas[j] # doc[i].lemma_
                        THEN Append(doc_lemmas, doc[i].lemma_)
                        ELSE doc_lemmas)

\* the loop over the tokens of one doc, from token i on
RECURSIVE TokenLoop(_, _, _)
TokenLoop(doc, i, doc_lemmas) ==
    IF i > Len(doc) THEN doc_lemmas
    ELSE TokenLoop(doc, i + 1,
                   IF KeepToken(doc[i])
                   THEN Append(doc_lemmas, doc[i].lemma_)
                   ELSE doc_lemmas)

\* make_lemmas_step that puts the newest batch first
make_lemmas_step_front(v, done, batch) ==
    [i \in 1..Len(batch) |->
        ListCell(TokenLoop(DocTokens(v, batch[i].val), 1, <<>>))] \o done

\* the body of the outer loop for the docs one batch of nlp.pipe yields
make_lemmas_step(v, done, batch) ==
    done \o [i \in 1..Len(batch) |->
                ListCell(TokenLoop(DocTokens(v, batch[i].val), 1, <<>>))]

\* the body of make_vectors' loop for the docs one batch yields
make_vectors_step(v, done, batch) ==
    done \o [i \in 1..Len(batch) |-> NdarrayCell(DocVector(v, batch[i].val))]

\* nlp.pipe accepts only str
PipeAccepts(batch) == \A i \in 1..Len(batch) : batch[i].kind = "str"

Min(a, b) == IF a < b THEN a ELSE b

----------------------------------------------------------------------------
(* DataFrames and CSV files *)

HasCol(df, name) == \E j \in 1..Len(df) : df[j].name = name

Col(df, name) == df[CHOOSE j \in 1..Len(df) : df[j].name = name].values

ColNames(df) == [j \in 1..Len(df) |-> df[j].name]

NRows(df) == IF df = <<>> THEN 0 ELSE Len(df[1].values)

PutCol(df, name, values) ==
    IF HasCol(df, name)
    THEN [j \in 1..Len(df) |->
            IF df[j].name = name THEN [name |-> name, values |-> values]
            ELSE df[j]]
    ELSE Append(df, [name |-> name, values |-> values])

\* df[name] = list raises ValueError unless the lengths agree
ListFits(df, values) == df = <<>> \/ Len(values) = NRows(df)

\* SetItemSeries that takes the Series from its last row backwards
SetItemSeriesReversed(df, name, series) ==
    PutCol(df, name, [i \in 1..Len(series) |-> series[Len(series) + 1 - i]])

\* df[name] = Series aligns the Series on the frame's index
SetItemSeries(df, name, series) ==
    IF df = <<>> THEN PutCol(df, name, series)
    ELSE PutCol(df, name,
                [i \in 1..NRows(df) |->
                    IF i <= Len(series) THEN series[i] ELSE NaNCell])

\* df[[names]]
Select(df, names) ==
    [j \in 1..Len(names) |-> [name |-> names[j], values |-> Col(df, names[j])]]

\* DataFrame.to_csv(index=False)
to_csv(df) ==
    [header |-> ColNames(df),
     rows |-> [i \in 1..NRows(df) |->
                 [j \in 1..Len(df) |-> CsvQuote(PyStr(df[j].values[i]))]]]

\* pd.read_csv
read_csv(content) ==
    [j \in 1..Len(content.header) |->
        [name |-> content.header[j],
         values |-> [i \in 1..Len(content.rows) |->
                       ParseField(CsvUnquote(content.rows[i][j]))]]]

\* datetime.utcnow().strftime('%Y-%m-%d-%H-%M-%SZ'): whole seconds
strftime(t) == t \div TicksPerSecond

\* vectors_filename that takes the time anew instead of the run's stamp
vectors_filename_now(v, stamp) ==
    [prefix |-> "vectors_" \o v, stamp |-> strftime(clock)]

\* lemmas_filename without the time stamp
lemmas_filename_fixed(stamp) == [prefix |-> "lemmas", stamp |-> NoStamp]

lemmas_filename(stamp) == [prefix |-> "lemmas", stamp |-> stamp]

vectors_filename(v, stamp) == [prefix |-> "vectors_" \o v, stamp |-> stamp]

Exists(fs, name) == \E j \in 1..Len(fs) : fs[j].name = name

FileNamed(fs, name) == fs[CHOOSE j \in 1..Len(fs) : fs[j].name = name]

\* open(name, 'w'): an existing file of that name is replaced.  writers
\* records the runs that have written the name, the last one last.
WriteFile(fs, name, content) ==
    IF Exists(fs, name)
    THEN [j \in 1..Len(fs) |->
            IF fs[j].name = name
            THEN [name |-> name, writers |-> Append(fs[j].writers, run),
                  content |-> content]
            ELSE fs[j]]
    ELSE Append(fs, [name |-> name, writers |-> <<run>>,
                     content |-> content])

----------------------------------------------------------------------------
(* The notebook, cell by cell *)

LemmaPc == <<"lemmas_sm", "lemmas_md", "lemmas_lg">>

LemmaCol == <<"sm_lemmas", "md_lemmas", "lg_lemmas">>

VectorPc == <<"vectors_sm", "vectors_md", "vectors_lg">>

VectorCol == <<"sm_vectors", "md_vectors", "lg_vectors">>

ExportPc == <<"export_sm", "export_md", "export_lg">>

\* Uncaught for an exception that is swallowed: the run goes on
Swallowed(p) == p

\* where the run stands after an exception nothing catches
Uncaught(p) == "aborted"

Raise(e) ==
    /\ error' = e
    /\ pc' = Uncaught(pc)
    /\ UNCHANGED <<run, clock, input_csv, training_data, lemmas, vectors,
                   pos, acc, utc_now_formatted, stamp_clock, files>>

\* training_data = pd.read_csv('data/combined_deduped.csv')
LoadTrainingData ==
    /\ pc = "load"
    /\ training_data' = read_csv(input_csv)
    /\ pc' = LemmaPc[1]
    /\ UNCHANGED <<error, run, clock, input_csv, lemmas, vectors, pos, acc,
                   utc_now_formatted, stamp_clock, files>>

\* one batch of make_lemmas(nlp, training_data['tweet'])
LemmaBatch(k) ==
    /\ pc = LemmaPc[k]
    /\ LET docs == Col(training_data, "tweet")
           hi == Min(pos + batch_size, Len(docs))
           batch == SubSeq(docs, pos + 1, hi)
       IN  /\ pos < Len(docs)
           /\ IF PipeAccepts(batch)
              THEN /\ acc' = make_lemmas_step(Variants[k], acc, batch)
                   /\ pos' = hi
                   /\ UNCHANGED <<pc, error, run, clock, input_csv,
                                  training_data, lemmas, vectors,
                                  utc_now_formatted, stamp_clock, files>>
              ELSE Raise("TypeError")

\* return lemmas; lemmas['.._lemmas'] = ...; after the third column,
\* lemmas['inappropriate'] = training_data['inappropriate']
LemmaReturn(k) ==
    /\ pc = LemmaPc[k]
    /\ pos = Len(Col(training_data, "tweet"))
    /\ IF ListFits(lemmas, acc)
       THEN /\ lemmas' =
                 LET df == PutCol(lemmas, LemmaCol[k], acc)
                 IN  IF k < 3 THEN df
                     ELSE SetItemSeries(df, "inappropriate",
                                        Col(training_data, "inappropriate"))
            /\ pc' = IF k < 3 THEN LemmaPc[k + 1] ELSE "export_lemmas"
            /\ pos' = 0
            /\ acc' = <<>>
            /\ UNCHANGED <<error, run, clock, input_csv, training_data,
                           vectors, utc_now_formatted, stamp_clock, files>>
       ELSE Raise("ValueError")

\* utc_now_formatted = ...; lemmas.to_csv(lemmas_filename, index=False)
ExportLemmas ==
    /\ pc = "export_lemmas"
    /\ utc_now_formatted' = strftime(clock)
    /\ stamp_clock' = Append(stamp_clock, [run |-> run, at |-> clock])
    /\ files' = WriteFile(files, lemmas_filename(utc_now_formatted'),
                          to_csv(lemmas))
    /\ pc' = "reload"
    /\ UNCHANGED <<error, run, clock, input_csv, training_data, lemmas,
                   vectors, pos, acc>>

\* lemmas = pd.read_csv(lemmas_filename)
ReloadLemmas ==
    /\ pc = "reload"
    /\ Exists(files, lemmas_filename(utc_now_formatted))
    /\ lemmas' = read_csv(FileNamed(files,
                            lemmas_filename(utc_now_formatted)).content)
    /\ pc' = VectorPc[1]
    /\ UNCHANGED <<error, run, clock, input_csv, training_data, vectors,
                   pos, acc, utc_now_formatted, stamp_clock, files>>

\* one batch of make_vectors(nlp, lemmas['.._lemmas'])
VectorBatch(k) ==
    /\ pc = VectorPc[k]
    /\ LET docs == Col(lemmas, LemmaCol[k])
           hi == Min(pos + batch_size, Len(docs))
           batch == SubSeq(docs, pos + 1, hi)
       IN  /\ pos < Len(docs)
           /\ IF PipeAccepts(batch)
              THEN /\ acc' = make_vectors_step(Variants[k], acc, batch)
                   /\ pos' = hi
                   /\ UNCHANGED <<pc, error, run, clock, input_csv,
                                  training_data, lemmas, vectors,
                                  utc_now_formatted, stamp_clock, files>>
              ELSE Raise("TypeError")

\* return vectors; vectors['.._vectors'] = ...; after the third column,
\* vectors['inappropriate'] = training_data['inappropriate']
VectorReturn(k) ==
    /\ pc = VectorPc[k]
    /\ pos = Len(Col(lemmas, LemmaCol[k]))
    /\ IF ListFits(vectors, acc)
       THEN /\ vectors' =
                 LET df == PutCol(vectors, VectorCol[k], acc)
                 IN  IF k < 3 THEN df
                     ELSE SetItemSeries(df, "inappropriate",
                                        Col(training_data, "inappropriate"))
            /\ pc' = IF k < 3 THEN VectorPc[k + 1] ELSE ExportPc[1]
            /\ pos' = 0
            /\ acc' = <<>>
            /\ UNCHANGED <<error, run, clock, input_csv, training_data,
                           lemmas, utc_now_formatted, stamp_clock, files>>
       ELSE Raise("ValueError")

\* vectors[['.._vectors', 'inappropriate']].to_csv(vectors_.._filename)
ExportVectors(k) ==
    /\ pc = ExportPc[k]
    /\ files' = WriteFile(files,
                          vectors_filename(Variants[k], utc_now_formatted),
                          to_csv(Select(vectors,
                                        <<VectorCol[k], "inappropriate">>)))
    /\ pc' = IF k < 3 THEN ExportPc[k + 1] ELSE "done"
    /\ UNCHANGED <<error, run, clock, input_csv, training_data, lemmas,
                   vectors, pos, acc, utc_now_formatted, stamp_clock>>

Running == pc \notin {"done", "aborted"}

\* a failure outside the notebook's control: a missing or unreadable input
\* file, a failure inside a spaCy batch, an unwritable output path
Fail ==
    /\ Running
    /\ Raise("external")

\* time passes
Tick ==
    /\ clock < MaxClock
    /\ clock' = clock + 1
    /\ UNCHANGED <<pc, error, run, input_csv, training_data, lemmas, vectors,
                   pos, acc, utc_now_formatted, stamp_clock, files>>

\* the notebook is run top to bottom again, in a fresh kernel
Rerun ==
    /\ ~Running
    /\ run < MaxRuns
    /\ run' = run + 1
    /\ pc' = "load"
    /\ error' = "none"
    /\ training_data' = <<>>
    /\ lemmas' = <<>>
    /\ vectors' = <<>>
    /\ pos' = 0
    /\ acc' = <<>>
    /\ utc_now_formatted' = NoStamp
    /\ UNCHANGED <<clock, input_csv, stamp_clock, files>>

----------------------------------------------------------------------------
(* Inputs *)

\* the tweets and labels the tables of a full run are made of: an empty
\* tweet, a tweet whose tokens are all filtered out, two tweets that keep
\* some tokens and lose others
SampleRows ==
    { <<<<>>, FalseText>>,
      <<<<"thee", "the">>, TrueText>>,
      <<<<"love", "go", "Ears">>, FalseText>>,
      <<<<"Ears", "!!!", "love">>, TrueText>> }

WordSeqs(n) == UNION {[1..k -> Words] : k \in 0..n}

InputTables(rows, n) ==
    {[header |-> <<"tweet", "inappropriate">>, rows |-> r] :
        r \in UNION {[1..k -> rows] : k \in 0..n}}

Fresh ==
    /\ pc = "load"
    /\ error = "none"
    /\ run = 1
    /\ clock = 0
    /\ training_data = <<>>
    /\ lemmas = <<>>
    /\ vectors = <<>>
    /\ pos = 0
    /\ acc = <<>>
    /\ utc_now_formatted = NoStamp
    /\ stamp_clock = <<>>
    /\ files = <<>>

Init ==
    /\ input_csv \in InputTables(SampleRows, MaxDocs)
    /\ Fresh

\* the cells of the notebook, in the order Run All takes them
NextCells ==
    \/ LoadTrainingData
    \/ \E k \in 1..3 : LemmaBatch(k)
    \/ \E k \in 1..3 : LemmaReturn(k)
    \/ ExportLemmas
    \/ ReloadLemmas
    \/ \E k \in 1..3 : VectorBatch(k)
    \/ \E k \in 1..3 : VectorReturn(k)
    \/ \E k \in 1..3 : ExportVectors(k)

Next ==
    \/ NextCells
    \/ Fail
    \/ Tick

Spec == Init /\ [][Next]_vars

\* one tweet of any words, for the properties of the token filter
InitTokens ==
    /\ input_csv \in InputTables({<<t, TrueText>> :
                                    t \in WordSeqs(MaxTokens) \ {<<>>}}, 1)
    /\ Fresh

SpecTokens == InitTokens /\ [][NextCells]_vars

\* several runs over the same input, into the same data directory
InitRuns ==
    /\ input_csv \in InputTables(SampleRows, 1)
    /\ Fresh

NextRuns == Next \/ Rerun

SpecRuns == InitRuns /\ [][NextRuns]_vars

----------------------------------------------------------------------------
(* What the properties below speak about *)

NDocs == Len(input_csv.rows)

InputTweet(i) == input_csv.rows[i][1]

InputLabel(i) == input_csv.rows[i][2]

\* the six conditions of the token filter, as the specification lists them
PassesFilter(t) ==
    /\ t.is_stop = FALSE
    /\ t.is_punct = FALSE
    /\ t.pos_ # "PRON"
    /\ \E c \in 1..Len(t.text) : t.text[c] \notin Whitespace
    /\ Len(t.lemma_) >= 3
    /\ t.lemma_ \notin {STOP_WORDS[j] : j \in 1..Len(STOP_WORDS)}

\* the lemmas of the tokens that pass, in text order, duplicates kept
PassingLemmas(v, tweet) ==
    LET kept == SelectSeq(DocTokens(v, tweet), PassesFilter)
    IN  [j \in 1..Len(kept) |-> kept[j].lemma_]

\* the rows of a lemma column that still hold lists (before the reload)
ListRows(k) ==
    IF HasCol(lemmas, LemmaCol[k])
    THEN {i \in 1..Len(Col(lemmas, LemmaCol[k])) :
            i <= NDocs /\ Col(lemmas, LemmaCol[k])[i].kind = "list"}
    ELSE {}

LemmaList(k, i) == Col(lemmas, LemmaCol[k])[i].val

Elems(l) == {l[j] : j \in 1..Len(l)}

\* C1: for every document, model variant and token, the token's lemma is in
\* the document's lemma list iff the token is not a stop word, is not
\* punctuation, is not tagged PRON, has a text that is not empty or all
\* whitespace, has a lemma longer than 2 and not in STOP_WORDS: every
\* passing token's lemma is in the list, every entry of the list is the
\* lemma of a passing token, and the list has one entry per passing token.
C1_FilterIff ==
    \A k \in 1..3 : \A i \in ListRows(k) :
        LET toks == DocTokens(Variants[k], InputTweet(i))
            pass == {j \in 1..Len(toks) : PassesFilter(toks[j])}
        IN  /\ \A j \in pass : toks[j].lemma_ \in Elems(LemmaList(k, i))
            /\ \A e \in Elems(LemmaList(k, i)) :
                  \E j \in pass : toks[j].lemma_ = e
            /\ Len(LemmaList(k, i)) = Cardinality(pass)

\* a document with a token that passes and a token that is filtered out
C1_Witness ==
    /\ pc = "export_lemmas"
    /\ \E i \in ListRows(1) :
          LET toks == DocTokens(Variants[1], InputTweet(i))
          IN  /\ \E j \in 1..Len(toks) : PassesFilter(toks[j])
              /\ \E j \in 1..Len(toks) :
                    /\ ~PassesFilter(toks[j])
                    /\ Len(toks[j].lemma_) = 2
              /\ LemmaList(1, i) # <<>>

\* C6: the lemma list of a document is exactly the lemmas of its passing
\* tokens, in the order of the text, duplicates kept, so it is never longer
\* than the document has tokens.
C6_OrderKept ==
    \A k \in 1..3 : \A i \in ListRows(k) :
        /\ LemmaList(k, i) = PassingLemmas(Variants[k], InputTweet(i))
        /\ Len(LemmaList(k, i)) <= Len(InputTweet(i))

\* a document with the same lemma twice around a filtered token
C6_Witness ==
    /\ pc = "export_lemmas"
    /\ \E i \in ListRows(3) :
          /\ Len(LemmaList(3, i)) = 2
          /\ LemmaList(3, i)[1] = LemmaList(3, i)[2]
          /\ Len(InputTweet(i)) = 3
          /\ ~PassesFilter(Token("lg", InputTweet(i)[2]))

----------------------------------------------------------------------------
(* Tables and files *)

\* the files whose last writer is the current run
OwnFiles == {j \in 1..Len(files) :
                files[j].writers[Len(files[j].writers)] = run}

OwnFile(prefix) ==
    files[CHOOSE j \in OwnFiles : files[j].name.prefix = prefix]

HasOwnFile(prefix) == \E j \in OwnFiles : files[j].name.prefix = prefix

VectorPrefix == <<"vectors_sm", "vectors_md", "vectors_lg">>

\* row i of lemma column k is document i's: its list, or after the reload
\* the text of its list
LemmaRowOk(cell, list, text) ==
    \/ CellEq(cell, ListCell(list))
    \/ CellEq(cell, StrCell(text))

VectorRowOk(k, cell, text) ==
    CellEq(cell, NdarrayCell(DocVector(Variants[k], text)))

\* C2: every output table has the row count and the row order of the input
\* table: row i of every lemma column, of every vector column and of every
\* exported file is the one of input document i, and the batches of
\* nlp.pipe neither drop nor reorder a row.
C2_RowsAligned ==
    LET list == [k \in 1..3 |-> [i \in 1..NDocs |->
                    PassingLemmas(Variants[k], InputTweet(i))]]
        text == [k \in 1..3 |-> [i \in 1..NDocs |-> PyStrList(list[k][i])]]
    IN  /\ \A k \in 1..3 :
              /\ HasCol(lemmas, LemmaCol[k]) =>
                    LET col == Col(lemmas, LemmaCol[k])
                    IN  /\ Len(col) = NDocs
                        /\ \A i \in 1..NDocs :
                              LemmaRowOk(col[i], list[k][i], text[k][i])
              /\ HasCol(vectors, VectorCol[k]) =>
                    LET col == Col(vectors, VectorCol[k])
                    IN  /\ Len(col) = NDocs
                        /\ \A i \in 1..NDocs :
                              VectorRowOk(k, col[i], text[k][i])
              /\ pc = LemmaPc[k] =>
                    /\ Len(acc) = pos
                    /\ \A i \in 1..pos :
                          LemmaRowOk(acc[i], list[k][i], text[k][i])
              /\ pc = VectorPc[k] =>
                    /\ Len(acc) = pos
                    /\ \A i \in 1..pos : VectorRowOk(k, acc[i], text[k][i])
        /\ \A j \in OwnFiles :
              LET rows == files[j].content.rows
              IN  /\ Len(rows) = NDocs
                  /\ \A i \in 1..NDocs : \A k \in 1..3 :
                        /\ files[j].name.prefix = "lemmas" =>
                              rows[i][k] = CsvQuote(text[k][i])
                        /\ files[j].name.prefix = VectorPrefix[k] =>
                              rows[i][1] =
                                 CsvQuote(<<"[", Variants[k]>>
                                          \o text[k][i] \o <<"]">>)

\* a finished run over more documents than one batch holds, the first and
\* the last of them different
C2_Witness ==
    /\ pc = "done"
    /\ NDocs > batch_size
    /\ InputTweet(1) # InputTweet(NDocs)
    /\ \A k \in 1..3 : HasOwnFile(VectorPrefix[k])
    /\ HasOwnFile("lemmas")

\* C5: every exported table holds the 'inappropriate' column of the source
\* table, unmodified and in the order of the source rows: the label in row
\* i of each file is the label of input row i.
C5_LabelsKept ==
    /\ \A j \in OwnFiles :
          LET c == files[j].content
              n == Len(c.header)
          IN  /\ n >= 1
              /\ c.header[n] = "inappropriate"
              /\ \A h \in 1..(n - 1) : c.header[h] # "inappropriate"
              /\ Len(c.rows) = NDocs
              /\ \A i \in 1..NDocs : c.rows[i][n] = InputLabel(i)
    /\ HasCol(lemmas, "inappropriate") =>
          /\ Len(Col(lemmas, "inappropriate")) = NDocs
          /\ \A i \in 1..NDocs :
                PyStr(Col(lemmas, "inappropriate")[i]) = InputLabel(i)
    /\ HasCol(vectors, "inappropriate") =>
          /\ Len(Col(vectors, "inappropriate")) = NDocs
          /\ \A i \in 1..NDocs :
                PyStr(Col(vectors, "inappropriate")[i]) = InputLabel(i)

\* a finished run whose first two rows carry different labels
C5_Witness ==
    /\ pc = "done"
    /\ NDocs >= 2
    /\ InputLabel(1) # InputLabel(2)
    /\ Cardinality(OwnFiles) = 4

----------------------------------------------------------------------------
(* The time stamp *)

\* the utcnow() readings the current run has taken
OwnReadings == {j \in 1..Len(stamp_clock) : stamp_clock[j].run = run}

\* C3: a run makes its time stamp exactly once, after the lemmas of all
\* three variants are extracted and before any vector is, and every file
\* the run writes carries that same stamp in its name; once made, the
\* stamp is never made again.
C3_OneStamp ==
    /\ [](/\ Cardinality(OwnReadings) =
               (IF utc_now_formatted = NoStamp THEN 0 ELSE 1)
          /\ utc_now_formatted # NoStamp =>
                \A k \in 1..3 : HasCol(lemmas, LemmaCol[k])
          /\ (vectors # <<>> \/ pc \in {VectorPc[k] : k \in 1..3}) =>
                utc_now_formatted # NoStamp
          /\ \A j \in OwnFiles :
                /\ utc_now_formatted # NoStamp
                /\ files[j].name.stamp = utc_now_formatted)
    /\ [][utc_now_formatted # NoStamp =>
             /\ utc_now_formatted' = utc_now_formatted
             /\ stamp_clock' = stamp_clock]_vars

\* all four files written under one stamp although the clock has since
\* moved on to another second
C3_Witness ==
    /\ pc = "done"
    /\ Cardinality(OwnFiles) = 4
    /\ strftime(clock) # utc_now_formatted
    /\ NDocs >= 1

----------------------------------------------------------------------------
(* Documents whose tokens are all filtered out *)

AllFiltered(k, i) ==
    /\ InputTweet(i) # <<>>
    /\ \A j \in 1..Len(InputTweet(i)) :
          ~PassesFilter(Token(Variants[k], InputTweet(i)[j]))

EmptyListText == <<"[", "]">>

\* C7: a document whose every token is filtered out gives an empty lemma
\* list in its row, no error and no dropped row, and the run still writes
\* a vector row for it in every vector table.
C7_EmptyListRow ==
    /\ \A k \in 1..3 : \A i \in 1..NDocs :
          AllFiltered(k, i) =>
             /\ HasCol(lemmas, LemmaCol[k]) =>
                   /\ i <= Len(Col(lemmas, LemmaCol[k]))
                   /\ \/ CellEq(Col(lemmas, LemmaCol[k])[i], ListCell(<<>>))
                      \/ CellEq(Col(lemmas, LemmaCol[k])[i],
                                StrCell(EmptyListText))
             /\ HasCol(vectors, VectorCol[k]) =>
                   /\ i <= Len(Col(vectors, VectorCol[k]))
                   /\ Col(vectors, VectorCol[k])[i].kind = "ndarray"
             /\ pc = "done" =>
                   /\ HasOwnFile(VectorPrefix[k])
                   /\ i <= Len(OwnFile(VectorPrefix[k]).content.rows)
                   /\ OwnFile(VectorPrefix[k]).content.rows[i][1] # <<>>
    /\ error = "TypeError" => \E i \in 1..NDocs : InputTweet(i) = <<>>
    /\ error # "ValueError"

\* a finished run over a table that holds such a document
C7_Witness ==
    /\ pc = "done"
    /\ \E i \in 1..NDocs : \A k \in 1..3 :
          /\ AllFiltered(k, i)
          /\ HasOwnFile(VectorPrefix[k])
          /\ CellEq(Col(lemmas, LemmaCol[k])[i], StrCell(EmptyListText))

----------------------------------------------------------------------------
(* The reload of the lemma file *)

\* the words of a text: its maximal runs of characters other than a space
RECURSIVE SplitWords(_, _, _)
SplitWords(text, i, word) ==
    IF i > Len(text)
    THEN (IF word = <<>> THEN <<>> ELSE <<word>>)
    ELSE IF text[i] = " "
         THEN (IF word = <<>> THEN <<>> ELSE <<word>>)
              \o SplitWords(text, i + 1, <<>>)
         ELSE SplitWords(text, i + 1, Append(word, text[i]))

\* C8: the round trip of the lemma table through its CSV file only coerces
\* a type and transforms no data: for every row and variant, what
\* make_vectors is given after the reload carries the lemmas the list in
\* memory held before the export, so that keeping the lemmas in memory as
\* strings would give the vectorization the same input.  Stated of the
\* reload step: the words of the reloaded text are the lemmas of the list.
C8_RoundTripKeepsLemmas ==
    [][(pc = "reload" /\ pc' = VectorPc[1]) =>
          \A k \in 1..3 : \A i \in 1..Len(Col(lemmas, LemmaCol[k])) :
             SplitWords(Col(lemmas', LemmaCol[k])[i].val, 1, <<>>) =
                Col(lemmas, LemmaCol[k])[i].val]_vars

\* C9: a run from top to bottom creates exactly four CSV files: the lemma
\* file with the columns 'sm_lemmas', 'md_vectors', 'lg_lemmas' and
\* 'inappropriate', and one vector file per variant with that variant's
\* vector column and 'inappropriate' only.
C9_FourFilesAsDocumented ==
    pc = "done" =>
       /\ Len(files) = 4
       /\ HasOwnFile("lemmas")
       /\ Elems(OwnFile("lemmas").content.header) =
             {"sm_lemmas", "md_vectors", "lg_lemmas", "inappropriate"}
       /\ \A k \in 1..3 :
             /\ HasOwnFile(VectorPrefix[k])
             /\ OwnFile(VectorPrefix[k]).content.header =
                   <<VectorCol[k], "inappropriate">>

----------------------------------------------------------------------------
(* Failures *)

\* C10: a failure in any batch of any stage, or in any export, ends the
\* run: the step that fails leaves the run aborted, and from then on no
\* cell runs, nothing is retried and no file is written.
C10_FailureAborts ==
    [][/\ error' # "none" => pc' = "aborted"
       /\ error # "none" =>
             /\ error' = error
             /\ UNCHANGED <<pc, training_data, lemmas, vectors, pos, acc,
                            utc_now_formatted, stamp_clock, files>>]_vars

\* a run that failed in a batch of the vector stage, its lemma file written
\* and none of the vector files
C10_Witness ==
    /\ error = "external"
    /\ pc = "aborted"
    /\ Len(acc) = batch_size
    /\ HasCol(vectors, VectorCol[1])
    /\ ~HasCol(vectors, VectorCol[2])
    /\ Len(files) = 1

----------------------------------------------------------------------------
(* Several runs *)

Readings == 1..Len(stamp_clock)

\* some file was written by both runs: the later run replaced a file of
\* the earlier one
SharedFile(r1, r2) ==
    \E j \in 1..Len(files) :
        /\ r1 \in Elems(files[j].writers)
        /\ r2 \in Elems(files[j].writers)

\* C4 as stated: two runs executed at different times produce files with
\* different time stamps in their names, so neither writes a file of the
\* name of, or over, a file of the other.
C4_DifferentTimes ==
    \A a \in Readings : \A b \in Readings :
        (/\ stamp_clock[a].run # stamp_clock[b].run
         /\ stamp_clock[a].at # stamp_clock[b].at) =>
            /\ strftime(stamp_clock[a].at) # strftime(stamp_clock[b].at)
            /\ ~SharedFile(stamp_clock[a].run, stamp_clock[b].run)

\* C4, amended: two runs whose time stamps are taken in different UTC
\* seconds write files whose names carry different stamps, each run's
\* files its own stamp, so neither overwrites a file of the other.
C4_DifferentSeconds ==
    \A a \in Readings : \A b \in Readings :
        (/\ stamp_clock[a].run # stamp_clock[b].run
         /\ strftime(stamp_clock[a].at) # strftime(stamp_clock[b].at)) =>
            /\ ~SharedFile(stamp_clock[a].run, stamp_clock[b].run)
            /\ \A j \in 1..Len(files) :
                  stamp_clock[a].run \in Elems(files[j].writers) =>
                     files[j].name.stamp = strftime(stamp_clock[a].at)

\* two finished runs stamped in different seconds, the four files of each
\* in the directory
C4_Witness ==
    /\ run = 2
    /\ pc = "done"
    /\ Len(stamp_clock) = 2
    /\ strftime(stamp_clock[1].at) # strftime(stamp_clock[2].at)
    /\ Len(files) = 8
    /\ Cardinality(OwnFiles) = 4
    /\ NDocs = 1

====
